---- MODULE Spec2Model ----
(***************************************************************************)
(* Model of the response simplifier of mcp-google-travels                  *)
(* (response-simplifier.ts, printed in src/src/compare-responses.ts from   *)
(* line 99 on).  A raw provider payload is a record; an absent field is a  *)
(* field that is not in the record's domain; a JSON null is the record     *)
(* Null.  A call either returns a response record or throws, and a throw   *)
(* is the record TypeError.                                                *)
(***************************************************************************)
EXTENDS Integers, Sequences, FiniteSets, TLC

VARIABLES pc, fn, raw, out, clock, prev, calls, env, proc, served

vars == <<pc, fn, raw, out, clock, prev, calls, env, proc, served>>

(***************************************************************************)
(* Bounds of the explored inputs.                                          *)
(***************************************************************************)
MaxLegs == 3
MaxBest == 6
MaxOther == 6
MaxShape == 2
MaxDuration == 400
MaxProps == 11

\* tool calls the host serves at the same time
MaxCalls == 2

(***************************************************************************)
(* JavaScript values.                                                      *)
(***************************************************************************)
Empty == [f \in {} |-> f]

Null == [jsnull |-> TRUE]

Undefined == [jsundefined |-> TRUE]

TypeError == [threw |-> "TypeError"]

Has(r, f) == f \in DOMAIN r

IsNull(v) == Has(v, "jsnull")

\* null and undefined are the two values that ?. and a property read stop at
Nullish(v) == Has(v, "jsnull") \/ Has(v, "jsundefined")

Threw(v) == Has(v, "threw")

\* r.f || d for a string-valued field: absent and "" both give d
StrOr(r, f, d) == IF Has(r, f) /\ r[f] # "" THEN r[f] ELSE d

\* r.f || d for a number-valued field: absent and 0 both give d
NumOr(r, f, d) == IF Has(r, f) /\ r[f] # 0 THEN r[f] ELSE d

\* r.f?.g || d : the nested object may be absent
NestedStrOr(r, f, g, d) == IF Has(r, f) THEN StrOr(r[f], g, d) ELSE d

\* { k: r.f } with r.f possibly undefined: an undefined value is no field
Pass(r, f, k) == IF Has(r, f) THEN [x \in {k} |-> r[f]] ELSE Empty

Min(a, b) == IF a <= b THEN a ELSE b

\* slice(-n): the last n entries are kept instead of the first n
Slice_Last(s, n) == [i \in 1..Min(Len(s), n) |-> s[Len(s) - Min(Len(s), n) + i]]

\* Array.prototype.slice(0, n)
Slice(s, n) == [i \in 1..Min(Len(s), n) |-> s[i]]

\* Math.min(...s) and Math.max(...s) of a non-empty array of integers
MathMin(s) == CHOOSE m \in {s[i] : i \in 1..Len(s)} : \A j \in 1..Len(s) : m <= s[j]

MathMax(s) == CHOOSE m \in {s[i] : i \in 1..Len(s)} : \A j \in 1..Len(s) : m >= s[j]

Abs(n) == IF n < 0 THEN 0 - n ELSE n

(***************************************************************************)
(* Helper functions of the simplifier.                                     *)
(***************************************************************************)
\* minutes below 10 are padded to two digits
formatDuration_Padded(minutes) ==
  LET hours == minutes \div 60
      mins == minutes % 60
  IN ToString(hours) \o "h " \o (IF mins < 10 THEN "0" ELSE "") \o ToString(mins) \o "m"

formatDuration(minutes) ==
  LET hours == minutes \div 60
      mins == minutes % 60
  IN ToString(hours) \o "h " \o ToString(mins) \o "m"

\* option.flights?.[0]
FirstLeg(option) ==
  IF Has(option, "flights") /\ Len(option.flights) > 0
  THEN option.flights[1] ELSE Undefined

\* the arrival is read from the first leg
LastLeg_First(option) ==
  IF Has(option, "flights") /\ Len(option.flights) > 0
  THEN option.flights[1] ELSE Undefined

\* option.flights?.[option.flights.length - 1]
LastLeg(option) ==
  IF Has(option, "flights") /\ Len(option.flights) > 0
  THEN option.flights[Len(option.flights)] ELSE Undefined

HighlightLimit == 3

\* a difference of 0 also counts as a saving
SavesCarbon_OrEqual(option) ==
  /\ Has(option, "carbon_emissions")
  /\ Has(option.carbon_emissions, "difference_percent")
  /\ option.carbon_emissions.difference_percent <= 0

\* option.carbon_emissions?.difference_percent < 0
SavesCarbon(option) ==
  /\ Has(option, "carbon_emissions")
  /\ Has(option.carbon_emissions, "difference_percent")
  /\ option.carbon_emissions.difference_percent < 0

buildFlightHighlights(option) ==
  LET firstFlight == FirstLeg(option)
      co2 == IF SavesCarbon(option)
             THEN <<ToString(Abs(option.carbon_emissions.difference_percent))
                      \o "% less CO2">>
             ELSE <<>>
      legroom == IF ~Nullish(firstFlight) /\ StrOr(firstFlight, "legroom", "") # ""
                 THEN <<"Legroom: " \o firstFlight.legroom>> ELSE <<>>
      travelClass == IF ~Nullish(firstFlight) /\ StrOr(firstFlight, "travel_class", "") # ""
                     THEN <<firstFlight.travel_class>> ELSE <<>>
      tripType == IF StrOr(option, "type", "") # "" THEN <<option.type>> ELSE <<>>
  IN Slice(co2 \o legroom \o travelClass \o tripType, HighlightLimit)

\* option.flights?.length - 1, without the || 1
StopCount_NoDefault(option) ==
  (IF Has(option, "flights") THEN Len(option.flights) ELSE 1) - 1

\* (option.flights?.length || 1) - 1
StopCount(option) ==
  (IF Has(option, "flights") /\ Len(option.flights) # 0
   THEN Len(option.flights) ELSE 1) - 1

\* departure: { airport, code, time } of the first leg
DepartureOf(firstFlight) ==
  [airport |-> NestedStrOr(firstFlight, "departure_airport", "name", ""),
   code |-> NestedStrOr(firstFlight, "departure_airport", "id", ""),
   time |-> NestedStrOr(firstFlight, "departure_airport", "time", "")]

\* a leg without an arrival airport arrives where it departs
ArrivalOf_FromDeparture(lastFlight) ==
  LET f == IF Has(lastFlight, "arrival_airport")
           THEN "arrival_airport" ELSE "departure_airport"
  IN [airport |-> NestedStrOr(lastFlight, f, "name", ""),
      code |-> NestedStrOr(lastFlight, f, "id", ""),
      time |-> NestedStrOr(lastFlight, f, "time", "")]

\* arrival: { airport, code, time } of the last leg
ArrivalOf(lastFlight) ==
  [airport |-> NestedStrOr(lastFlight, "arrival_airport", "name", ""),
   code |-> NestedStrOr(lastFlight, "arrival_airport", "id", ""),
   time |-> NestedStrOr(lastFlight, "arrival_airport", "time", "")]

\* the projection of one option that is an object; a null entry throws at
\* the read of option.flights
\* a token made up for an option that carries none
TokensOf_Synthesized(option) ==
  [bookingToken |-> StrOr(option, "booking_token", "FL-0")]
    @@ Pass(option, "departure_token", "departureToken")

\* bookingToken: option.booking_token, departureToken: option.departure_token
TokensOf(option) ==
  Pass(option, "booking_token", "bookingToken")
    @@ Pass(option, "departure_token", "departureToken")

simplifyFlightOption(option) ==
  LET firstFlight == IF Nullish(FirstLeg(option)) THEN Empty ELSE FirstLeg(option)
      lastFlight == IF Nullish(LastLeg(option)) THEN firstFlight ELSE LastLeg(option)
  IN [airline |-> StrOr(firstFlight, "airline", "Unknown"),
      flightNumber |-> StrOr(firstFlight, "flight_number", ""),
      departure |-> DepartureOf(firstFlight),
      arrival |-> ArrivalOf(lastFlight),
      duration |-> formatDuration(NumOr(option, "total_duration", 0)),
      stops |-> StopCount(option),
      price |-> NumOr(option, "price", 0),
      currency |-> "USD",
      highlights |-> buildFlightHighlights(option)]
     @@ TokensOf(option)

OptionThrows(option) == IsNull(option)

\* serpApiResponse.f || []
ListOr(r, f) == IF Has(r, f) THEN r[f] ELSE <<>>

OtherFlightsLimit == 5

PriceRange_Swapped(allPrices) ==
  IF Len(allPrices) > 0
  THEN [priceRange |-> [min |-> MathMax(allPrices), max |-> MathMin(allPrices)]]
  ELSE Empty

PriceRange(allPrices) ==
  IF Len(allPrices) > 0
  THEN [priceRange |-> [min |-> MathMin(allPrices), max |-> MathMax(allPrices)]]
  ELSE Empty

\* the prices of the returned flights only
AllPrices_Returned(bestFlights, otherFlights) ==
  LET all == bestFlights \o Slice(otherFlights, OtherFlightsLimit)
  IN [i \in 1..Len(all) |-> all[i].price]

\* prices of 0 are left out, as the hotel range leaves them out
AllPrices_Positive(bestFlights, otherFlights) ==
  LET all == bestFlights \o otherFlights
  IN SelectSeq([i \in 1..Len(all) |-> all[i].price], LAMBDA p : p > 0)

\* [...bestFlights, ...otherFlights].map(f => f.price)
AllPrices(bestFlights, otherFlights) ==
  LET all == bestFlights \o otherFlights
  IN [i \in 1..Len(all) |-> all[i].price]

\* the count taken after otherFlights is cut to its limit
TotalResults_AfterCap(bestFlights, otherFlights) ==
  Len(bestFlights) + Len(Slice(otherFlights, OtherFlightsLimit))

\* totalResults: bestFlights.length + otherFlights.length
TotalResults(bestFlights, otherFlights) == Len(bestFlights) + Len(otherFlights)

simplifyFlightResponse(serpApiResponse) ==
  LET rawBest == ListOr(serpApiResponse, "best_flights")
      rawOther == ListOr(serpApiResponse, "other_flights")
  IN IF \/ \E i \in 1..Len(rawBest) : OptionThrows(rawBest[i])
        \/ \E i \in 1..Len(rawOther) : OptionThrows(rawOther[i])
     THEN TypeError
     ELSE LET bestFlights == [i \in 1..Len(rawBest) |-> simplifyFlightOption(rawBest[i])]
              otherFlights == [i \in 1..Len(rawOther) |-> simplifyFlightOption(rawOther[i])]
          IN [summary |-> [totalResults |-> TotalResults(bestFlights, otherFlights)]
                          @@ Pass(serpApiResponse, "search_parameters", "searchParams")
                          @@ PriceRange(AllPrices(bestFlights, otherFlights))
                          @@ (IF Has(serpApiResponse, "search_metadata")
                              THEN Pass(serpApiResponse.search_metadata,
                                        "google_flights_url", "googleFlightsUrl")
                              ELSE Empty),
              bestFlights |-> bestFlights,
              otherFlights |-> Slice(otherFlights, OtherFlightsLimit)]
             @@ Pass(serpApiResponse, "price_insights", "priceInsights")

(***************************************************************************)
(* Hotels.  The strings the code takes apart or builds an id from (name,   *)
(* property_token, hotelId, the rendering of Date.now()) are sequences of  *)
(* one-character strings, so that replace, substring and concatenation     *)
(* are computed character by character.                                    *)
(***************************************************************************)
\* r.f && d written for r.f || d
CharsOr_And(r, f, d) == IF Has(r, f) /\ r[f] # <<>> THEN d ELSE <<>>

\* r.f || d for a character-sequence field
CharsOr(r, f, d) == IF Has(r, f) /\ r[f] # <<>> THEN r[f] ELSE d

IsSpace(c) == c \in {" ", "\t", "\n"}

RECURSIVE SkipSpaces(_)
SkipSpaces(s) ==
  IF s # <<>> /\ IsSpace(Head(s)) THEN SkipSpaces(Tail(s)) ELSE s

\* String.prototype.replace(/\s+/g, '-')
RECURSIVE ReplaceSpaceRuns(_)
ReplaceSpaceRuns(s) ==
  IF s = <<>> THEN <<>>
  ELSE IF IsSpace(Head(s)) THEN <<"-">> \o ReplaceSpaceRuns(SkipSpaces(s))
  ELSE <<Head(s)>> \o ReplaceSpaceRuns(Tail(s))

IdNameLimit == 20

UndefinedText == <<"u", "n", "d", "e", "f", "i", "n", "e", "d">>

\* the name is cut to 20 characters before its spaces are replaced
generateHotelId_CutFirst(prop, now) ==
  <<"H", "T", "L", "-">>
    \o (IF Has(prop, "name")
        THEN ReplaceSpaceRuns(Slice(prop.name, IdNameLimit))
        ELSE UndefinedText)
    \o <<"-">> \o now

\* `HTL-${prop.name?.replace(/\s+/g, '-').substring(0, 20)}-${Date.now()}`
\* the name fragment alone, without prefix and timestamp
generateHotelId_FragmentOnly(prop, now) ==
  IF Has(prop, "name")
  THEN Slice(ReplaceSpaceRuns(prop.name), IdNameLimit)
  ELSE UndefinedText

generateHotelId(prop, now) ==
  <<"H", "T", "L", "-">>
    \o (IF Has(prop, "name")
        THEN Slice(ReplaceSpaceRuns(prop.name), IdNameLimit)
        ELSE UndefinedText)
    \o <<"-">> \o now

\* the default of the flight airline used for the hotel name
UnknownProperty_Short == <<"U", "n", "k", "n", "o", "w", "n">>

UnknownProperty ==
  <<"U", "n", "k", "n", "o", "w", "n", " ", "P", "r", "o", "p", "e", "r", "t", "y">>

AmenitiesLimit == 5

\* (prop.amenities || []).slice(0, 5): an absent list becomes an empty one
AmenitiesOf_EmptyList(prop) ==
  [amenities |-> Slice(ListOr(prop, "amenities"), AmenitiesLimit)]

\* amenities: prop.amenities?.slice(0, 5)
AmenitiesOf(prop) ==
  IF Has(prop, "amenities")
  THEN [amenities |-> Slice(prop.amenities, AmenitiesLimit)] ELSE Empty

\* r.f?.extracted_lowest || 0
RateOr(r, f) == IF Has(r, f) THEN NumOr(r[f], "extracted_lowest", 0) ELSE 0

simplifyHotelProperty(prop, now) ==
  [hotelId |-> IF CharsOr(prop, "property_token", <<>>) # <<>>
               THEN prop.property_token ELSE generateHotelId(prop, now),
   name |-> CharsOr(prop, "name", UnknownProperty),
   type |-> StrOr(prop, "type", "hotel"),
   pricePerNight |-> RateOr(prop, "rate_per_night"),
   totalPrice |-> RateOr(prop, "total_rate"),
   currency |-> "USD",
   location |-> StrOr(prop, "neighborhood", StrOr(prop, "location", "")),
   propertyToken |-> CharsOr(prop, "property_token", <<>>)]
  @@ Pass(prop, "overall_rating", "rating")
  @@ Pass(prop, "reviews", "reviewCount")
  @@ Pass(prop, "link", "bookingLink")
  @@ AmenitiesOf(prop)
  @@ Pass(prop, "check_in_time", "checkIn")
  @@ Pass(prop, "check_out_time", "checkOut")

PropertiesLimit == 10

\* the nightly prices without the filter
PositivePrices_All(properties) ==
  [i \in 1..Len(properties) |-> properties[i].pricePerNight]

\* properties.map(p => p.pricePerNight).filter(p => p > 0)
PositivePrices(properties) ==
  SelectSeq([i \in 1..Len(properties) |-> properties[i].pricePerNight],
            LAMBDA p : p > 0)

\* the count taken after properties is cut to its limit
HotelTotal_Returned(properties) == Len(Slice(properties, PropertiesLimit))

\* totalResults: properties.length
HotelTotal(properties) == Len(properties)

\* nows[i] is what Date.now() returns while the i-th property is projected
simplifyHotelResponse(serpApiResponse, nows) ==
  LET rawProps == ListOr(serpApiResponse, "properties")
  IN IF \E i \in 1..Len(rawProps) : IsNull(rawProps[i])
     THEN TypeError
     ELSE LET properties == [i \in 1..Len(rawProps) |->
                               simplifyHotelProperty(rawProps[i], nows[i])]
          IN [summary |-> [totalResults |-> HotelTotal(properties)]
                          @@ Pass(serpApiResponse, "search_parameters", "searchParams")
                          @@ PriceRange(PositivePrices(properties)),
              properties |-> Slice(properties, PropertiesLimit)]

(***************************************************************************)
(* Raw payloads the provider can send.                                     *)
(***************************************************************************)
\* all sequences over S of length 0..n
SeqUpTo(S, n) == UNION {[1..k -> S] : k \in 0..n}

\* a field that is either absent or holds one of the values of S
Opt(f, S) == {Empty} \cup {[x \in {f} |-> v] : v \in S}

LegA ==
  [departure_airport |-> [name |-> "Los Angeles Intl", id |-> "LAX", time |-> "08:00"],
   arrival_airport |-> [name |-> "Denver Intl", id |-> "DEN", time |-> "11:20"],
   airline |-> "United", flight_number |-> "UA 100",
   legroom |-> "31 in", travel_class |-> "Business"]

LegB ==
  [departure_airport |-> [name |-> "Denver Intl", id |-> "DEN", time |-> "12:30"],
   arrival_airport |-> [name |-> "Chicago O'Hare", id |-> "ORD", time |-> "15:45"],
   airline |-> "Delta", flight_number |-> "DL 7", travel_class |-> "Economy"]

LegC ==
  [departure_airport |-> [name |-> "Chicago O'Hare", id |-> "ORD", time |-> "17:00"],
   arrival_airport |-> [name |-> "Boston Logan", id |-> "BOS"],
   legroom |-> "30 in"]

LegJFK ==
  [departure_airport |-> [name |-> "JFK Intl", id |-> "JFK", time |-> "11:00"],
   airline |-> "Frontier", flight_number |-> "F9 2503",
   legroom |-> "28 in", travel_class |-> "Economy"]

Legs == {LegA, LegB, LegC, Empty, Null}

OptionJFK ==
  [flights |-> <<LegJFK>>, total_duration |-> 385, price |-> 926,
   type |-> "Round trip", booking_token |-> "TOK1"]

OptionExtras ==
  {Empty,
   [price |-> 926, total_duration |-> 385, booking_token |-> "TOK1"],
   [price |-> 450, total_duration |-> 60, booking_token |-> "TOK2",
    departure_token |-> "DEP2"]}

CarbonDeltas == {-12, 0, 7}

OptCheap ==
  [flights |-> <<LegA>>, total_duration |-> 200, price |-> 120,
   type |-> "One way", departure_token |-> "DEPA"]

OptDear ==
  [flights |-> <<LegA, LegB>>, total_duration |-> 365, price |-> 926,
   type |-> "Round trip", booking_token |-> "TOKB",
   carbon_emissions |-> [difference_percent |-> -8]]

OptFree == [flights |-> <<LegB, LegC>>, total_duration |-> 60]

OptOdd == [flights |-> <<>>, carbon_emissions |-> Empty]

ResponseExtras ==
  {Empty,
   [search_metadata |-> Empty],
   [search_metadata |-> [google_flights_url |-> "https://www.google.com/travel/flights"],
    search_parameters |-> [engine |-> "google_flights"],
    price_insights |-> [lowest_price |-> 120]]}

\* one option, in every combination of present and absent parts
OneOptionInput(r) ==
  \E l \in Opt("flights", SeqUpTo(Legs, MaxLegs)),
     c \in Opt("carbon_emissions", {[difference_percent |-> p] : p \in CarbonDeltas}),
     t \in Opt("type", {"Round trip"}),
     e \in OptionExtras :
    r = [best_flights |-> <<l @@ c @@ t @@ e>>]

\* one option, with every total duration
DurationInput(r) ==
  \E m \in 0..MaxDuration :
    r = [other_flights |-> <<[OptionJFK EXCEPT !.total_duration = m]>>]

\* long lists
LongListsInput(r) ==
  \E b \in Opt("best_flights", SeqUpTo({OptCheap, OptDear}, MaxBest)),
     o \in Opt("other_flights", SeqUpTo({OptDear, OptFree}, MaxOther)) :
    r = b @@ o

\* short lists of entries of any shape
ShapesInput(r) ==
  \E b \in Opt("best_flights", SeqUpTo({Null, Empty, OptionJFK, OptOdd}, MaxShape)),
     o \in Opt("other_flights", SeqUpTo({Null, Empty, OptionJFK, OptOdd}, MaxShape)),
     x \in ResponseExtras :
    r = b @@ o @@ x

RawFlightInput(r) ==
  OneOptionInput(r) \/ DurationInput(r) \/ LongListsInput(r) \/ ShapesInput(r)

Token1 == <<"a", "b", "c", "1", "2", "3", "x", "y", "z", "9", "8", "7">>

NameShort == <<"S", "e", "a", " ", "I", "n", "n">>

NameLong ==
  <<"G", "r", "a", "n", "d", " ", " ", "P", "l", "a", "z", "a", "\t", "H", "o",
    "t", "e", "l", " ", "&", " ", "S", "p", "a", " ", "R", "e", "s", "o", "r", "t">>

PropToken == [property_token |-> Token1]

PropFull ==
  [property_token |-> <<"t", "o", "k", "-", "f", "u", "l", "l", "-", "0", "1">>,
   name |-> NameShort, type |-> "vacation rental",
   overall_rating |-> 4, reviews |-> 1280,
   rate_per_night |-> [extracted_lowest |-> 120],
   total_rate |-> [extracted_lowest |-> 360],
   neighborhood |-> "Old Town", location |-> "Lisbon",
   link |-> "https://example.com/sea-inn",
   amenities |-> <<"Wi-Fi", "Pool", "Spa", "Parking", "Bar", "Gym", "Beach">>,
   check_in_time |-> "3:00 PM", check_out_time |-> "11:00 AM"]

PropNoToken ==
  [name |-> NameLong, rate_per_night |-> [extracted_lowest |-> 80],
   total_rate |-> Empty, location |-> "Porto", amenities |-> <<"Wi-Fi", "Pool">>]

PropEmptyToken == [property_token |-> <<>>, rate_per_night |-> Empty]

PropPlain ==
  [property_token |-> <<"t", "o", "k", "-", "p", "l", "a", "i", "n", "-", "0", "2">>,
   name |-> NameLong, rate_per_night |-> [extracted_lowest |-> 80],
   amenities |-> <<"Wi-Fi">>]

PropShortName == [name |-> NameShort, property_token |-> <<>>, type |-> "hotel"]

\* long lists
HotelLongListInput(r) ==
  \E p \in Opt("properties", SeqUpTo({PropFull, PropPlain}, MaxProps)) : r = p

\* short lists of entries of any shape
HotelShapesInput(r) ==
  \E p \in Opt("properties",
               SeqUpTo({Null, Empty, PropToken, PropFull, PropNoToken, PropEmptyToken,
                        PropShortName},
                       MaxShape)),
     x \in Opt("search_parameters", {[engine |-> "google_hotels"]}) :
    r = p @@ x

RawHotelInput(r) == HotelLongListInput(r) \/ HotelShapesInput(r)

\* Date.now(), rendered in decimal
Time0 == <<"1", "7", "6", "2", "0", "0", "0", "0", "0", "0", "0", "0", "0">>

Time1 == <<"1", "7", "6", "2", "0", "0", "0", "0", "0", "0", "0", "0", "1">>

\* the clock readings of a call that projects n properties: the clock
\* moves from Time0 to Time1 before the k-th projection, or not at all
ClockReadings(n) ==
  {[i \in 1..n |-> IF i < k THEN Time0 ELSE Time1] : k \in 1..(n + 1)}

\* the readings n projections can make of a clock that shows now and never
\* runs backwards
ReadingsFrom(now, n) ==
  {nows \in ClockReadings(n) : \A i \in 1..n : now = Time1 => nows[i] = Time1}

(***************************************************************************)
(* The tool calls of the server: each call keeps the locals of its own     *)
(* handler invocation (name, args, response, rawData) and its result.      *)
(***************************************************************************)
CallIds == 1..MaxCalls

IdleCall ==
  [st |-> "idle", name |-> "", args |-> Undefined, request |-> Undefined,
   response |-> Undefined, rawData |-> Undefined, result |-> Undefined]

NoCalls == [c \in CallIds |-> IdleCall]

\* process.env after dotenv.config(), with the provider key set
EnvWithKey == [SERPAPI_API_KEY |-> "key"]

\* the process once `await server.connect(transport)` has returned
Connected == [state |-> "connected"]

(***************************************************************************)
(* The calls.                                                              *)
(***************************************************************************)
Init ==
  /\ pc = "ready"
  /\ out = Undefined
  /\ clock = Time0
  /\ prev = Undefined
  /\ calls = NoCalls
  /\ env = EnvWithKey
  /\ proc = Connected
  /\ served = Undefined
  /\ \/ fn = "simplifyFlightResponse" /\ RawFlightInput(raw)
     \/ fn = "simplifyHotelResponse" /\ RawHotelInput(raw)

CallSimplifyFlightResponse_Stamped ==
  /\ pc = "ready"
  /\ fn = "simplifyFlightResponse"
  /\ out' = [searchedAt |-> clock] @@ simplifyFlightResponse(raw)
  /\ pc' = "done"
  /\ UNCHANGED <<fn, raw, clock, prev, calls, env, proc, served>>

CallSimplifyFlightResponse ==
  /\ pc = "ready"
  /\ fn = "simplifyFlightResponse"
  /\ out' = simplifyFlightResponse(raw)
  /\ pc' = "done"
  /\ UNCHANGED <<fn, raw, clock, prev, calls, env, proc, served>>

\* a call that cut the payload's own list down to the returned length
CallSimplifyHotelResponse_Splice ==
  /\ pc = "ready"
  /\ fn = "simplifyHotelResponse"
  /\ \E nows \in ReadingsFrom(clock, Len(ListOr(raw, "properties"))) :
       /\ clock' = (IF Len(nows) > 0 THEN nows[Len(nows)] ELSE clock)
       /\ out' = simplifyHotelResponse(raw, nows)
  /\ raw' = (IF Has(raw, "properties")
             THEN [raw EXCEPT !.properties = Slice(@, PropertiesLimit)]
             ELSE raw)
  /\ pc' = "done"
  /\ UNCHANGED <<fn, prev, calls, env, proc, served>>

\* the clock is read while a property without a token is projected; clock
\* is the time at which the call ends
CallSimplifyHotelResponse ==
  /\ pc = "ready"
  /\ fn = "simplifyHotelResponse"
  /\ \E nows \in ReadingsFrom(clock, Len(ListOr(raw, "properties"))) :
       /\ clock' = (IF Len(nows) > 0 THEN nows[Len(nows)] ELSE clock)
       /\ out' = simplifyHotelResponse(raw, nows)
  /\ pc' = "done"
  /\ UNCHANGED <<fn, raw, prev, calls, env, proc, served>>

Next == CallSimplifyFlightResponse \/ CallSimplifyHotelResponse

Spec == Init /\ [][Next]_vars

(***************************************************************************)
(* Two invocations on the same payload: the caller keeps the first result  *)
(* and calls again, while the wall clock may advance at any moment.        *)
(***************************************************************************)
InitRepeat ==
  /\ pc = "ready"
  /\ out = Undefined
  /\ clock = Time0
  /\ prev = Undefined
  /\ calls = NoCalls
  /\ env = EnvWithKey
  /\ proc = Connected
  /\ served = Undefined
  /\ \/ fn = "simplifyFlightResponse" /\ ShapesInput(raw)
     \/ fn = "simplifyHotelResponse" /\ HotelShapesInput(raw)

\* the caller invokes the same function on the same payload once more
CallAgain ==
  /\ pc = "done"
  /\ prev = Undefined
  /\ prev' = [result |-> out, at |-> clock]
  /\ out' = Undefined
  /\ pc' = "ready"
  /\ UNCHANGED <<fn, raw, clock, calls, env, proc, served>>

\* Date.now() advances
Tick ==
  /\ clock = Time0
  /\ clock' = Time1
  /\ UNCHANGED <<pc, fn, raw, out, prev, calls, env, proc, served>>

NextRepeat ==
  \/ CallSimplifyFlightResponse
  \/ CallSimplifyHotelResponse
  \/ CallAgain
  \/ Tick

SpecRepeat == InitRepeat /\ [][NextRepeat]_vars

(***************************************************************************)
(* The server: the CallTool request handler and the five tool functions.   *)
(* A call is suspended at `await fetch(...)` and at `await                 *)
(* response.json()`; between two suspensions it runs without interruption. *)
(***************************************************************************)
ToolNames ==
  {"search_flights", "search_multi_city", "search_hotels",
   "get_hotel_details", "search_vacation_rentals"}

RequestNames == ToolNames \cup {"book_flight", "get_flight_details"}

\* JSON.stringify(value, null, 2): the text of a value; fields whose value
\* is undefined are not in the records of this model, as they are not in
\* the text
JSONStringify(value) == [json |-> value]

\* the handler's return after a tool function returned
OkReply(result) ==
  [content |-> <<[type |-> "text", text |-> JSONStringify(result)]>>]

\* the handler's return after a tool function threw
ErrorReply(errorMessage) ==
  [content |-> <<[type |-> "text",
                  text |-> JSONStringify([error |-> errorMessage])]>>,
   isError |-> TRUE]

DestructureMessage == "Cannot destructure property of 'args' as it is undefined."

MapMessage == "Cannot read properties of undefined (reading 'map')"

NullEntryMessage == "Cannot read properties of null"

JsonMessage == "Unexpected token in JSON"

FetchMessage == "fetch failed"

HotelIdMinLength == 10

\* !hotelId || hotelId.length < 10
InvalidHotelId_AbsentOnly(args) == ~Has(args, "hotelId")

InvalidHotelId(args) ==
  \/ ~Has(args, "hotelId")
  \/ Len(args.hotelId) < HotelIdMinLength

InvalidHotelIdResult ==
  [error |-> "Invalid hotelId/property_token",
   note |-> "Please provide a valid property_token from search_hotels results.",
   example |-> "Use the 'propertyToken' field from hotel search results"]

\* what a call returns without reaching its provider request; Undefined
\* when it goes on to the request
BeforeFetch(name, args) ==
  IF name \notin ToolNames THEN ErrorReply("Unknown tool: " \o name)
  ELSE IF args = Undefined THEN ErrorReply(DestructureMessage)
  ELSE IF name = "search_multi_city" /\ ~Has(args, "flights")
    THEN ErrorReply(MapMessage)
  ELSE IF name = "get_hotel_details" /\ InvalidHotelId(args)
    THEN OkReply(InvalidHotelIdResult)
  ELSE Undefined

\* classMap[cabinClass] || "1", cabinClass defaulting to "economy"
mapCabinClass(args) ==
  LET cabinClass == StrOr(args, "cabinClass", "economy")
  IN IF cabinClass = "economy" THEN "1"
     ELSE IF cabinClass = "premium_economy" THEN "2"
     ELSE IF cabinClass = "business" THEN "3"
     ELSE IF cabinClass = "first" THEN "4"
     ELSE "1"

\* x.toString() of a count that defaults to d when the argument is absent
CountText(args, f, d) == IF Has(args, f) THEN ToString(args[f]) ELSE ToString(d)

\* a value given to URLSearchParams: an absent one is sent as "undefined"
ParamOf(args, f) == IF Has(args, f) THEN args[f] ELSE "undefined"

\* params.append for the optional price bounds
PriceParams(args) ==
  (IF Has(args, "minPrice") /\ args.minPrice # 0
   THEN [min_price |-> ToString(args.minPrice)] ELSE Empty)
    @@ (IF Has(args, "maxPrice") /\ args.maxPrice # 0
        THEN [max_price |-> ToString(args.maxPrice)] ELSE Empty)

\* the query parameters of the request a tool function sends to the
\* provider (api_key left out)
OutboundRequest(name, args) ==
  IF name = "search_flights"
    THEN [engine |-> "google_flights",
          departure_id |-> ParamOf(args, "origin"),
          arrival_id |-> ParamOf(args, "destination"),
          outbound_date |-> ParamOf(args, "departureDate"),
          adults |-> CountText(args, "passengers", 1),
          travel_class |-> mapCabinClass(args),
          type |-> IF StrOr(args, "returnDate", "") # "" THEN "1" ELSE "2",
          currency |-> "USD", hl |-> "en"]
           @@ (IF StrOr(args, "returnDate", "") # ""
               THEN [return_date |-> args.returnDate] ELSE Empty)
  ELSE IF name = "search_multi_city"
    THEN [engine |-> "google_flights", type |-> "3",
          adults |-> CountText(args, "passengers", 1),
          travel_class |-> mapCabinClass(args),
          currency |-> "USD", hl |-> "en",
          multi_city_json |->
            [i \in 1..Len(args.flights) |->
               Pass(args.flights[i], "origin", "departure_id")
                 @@ Pass(args.flights[i], "destination", "arrival_id")
                 @@ Pass(args.flights[i], "departureDate", "date")]]
  ELSE IF name = "get_hotel_details"
    THEN [engine |-> "google_hotels", property_token |-> args.hotelId,
          currency |-> "USD", hl |-> "en"]
  ELSE IF name = "search_hotels"
    THEN [engine |-> "google_hotels", q |-> ParamOf(args, "location"),
          check_in_date |-> ParamOf(args, "checkIn"),
          check_out_date |-> ParamOf(args, "checkOut"),
          adults |-> CountText(args, "guests", 2),
          currency |-> "USD", hl |-> "en"]
           @@ PriceParams(args)
           @@ (IF Has(args, "starRating") /\ args.starRating # 0
               THEN [hotel_class |->
                       [i \in 1..(6 - args.starRating) |->
                          ToString(args.starRating + i - 1)]]
               ELSE Empty)
  ELSE [engine |-> "google_hotels",
        q |-> ParamOf(args, "location") \o " vacation rental",
        check_in_date |-> ParamOf(args, "checkIn"),
        check_out_date |-> ParamOf(args, "checkOut"),
        adults |-> CountText(args, "guests", 2),
        currency |-> "USD", hl |-> "en"]
         @@ PriceParams(args)

\* the error a settled fetch leads to
FailureMessage(response) ==
  IF Has(response, "rejected") THEN FetchMessage
  ELSE "SerpAPI request failed: " \o ToString(response.status)
         \o " " \o response.statusText

\* a failure reported as an ordinary result by every tool
AfterFailure_Swallowed(name, args, errorMessage) ==
  IF name = "get_hotel_details"
  THEN OkReply(
         Pass(args, "hotelId", "hotelId") @@
         [error |-> errorMessage,
          note |-> "Failed to fetch hotel details. The property_token may be invalid or expired.",
          suggestion |-> "Run search_hotels again to get fresh property tokens."])
  ELSE OkReply([error |-> errorMessage])

\* a failure that reaches the handler's catch from every tool
AfterFailure_Rethrown(name, args, errorMessage) == ErrorReply(errorMessage)

\* getHotelDetails catches what its request throws; the search functions
\* let it reach the handler
AfterFailure(name, args, errorMessage) ==
  IF name = "get_hotel_details"
  THEN OkReply(
         Pass(args, "hotelId", "hotelId") @@
         [error |-> errorMessage,
          note |-> "Failed to fetch hotel details. The property_token may be invalid or expired.",
          suggestion |-> "Run search_hotels again to get fresh property tokens."])
  ELSE ErrorReply(errorMessage)

PricesLimit == 5

DetailAmenitiesLimit == 15

ImagesLimit == 10

RoomsLimit == 5

NearbyLimit == 5

\* rawData.f?.slice(0, n), under the output name k
SliceOf(r, f, k, n) ==
  IF Has(r, f) THEN [x \in {k} |-> Slice(r[f], n)] ELSE Empty

\* img.thumbnail || img.link; undefined in a list is rendered as null
ImageOf(img) ==
  IF Has(img, "thumbnail") /\ img.thumbnail # "" THEN img.thumbnail
  ELSE IF Has(img, "link") THEN img.link ELSE Null

\* the record getHotelDetails builds from the provider's payload
HotelDetails(args, rawData) ==
  Pass(args, "hotelId", "hotelId") @@ Pass(args, "hotelId", "propertyToken") @@
  [name |-> StrOr(rawData, "name", "Unknown"),
   type |-> StrOr(rawData, "type", "hotel"),
   location |-> Pass(rawData, "address", "address")
                  @@ Pass(rawData, "neighborhood", "neighborhood")
                  @@ Pass(rawData, "gps_coordinates", "coordinates"),
   policies |-> Pass(rawData, "check_in_time", "checkIn")
                  @@ Pass(rawData, "check_out_time", "checkOut")
                  @@ (IF Has(rawData, "policies")
                      THEN Pass(rawData.policies, "cancellation", "cancellation")
                             @@ Pass(rawData.policies, "children", "children")
                      ELSE Empty)]
    @@ Pass(rawData, "description", "description")
    @@ Pass(rawData, "check_in_time", "checkIn")
    @@ Pass(rawData, "check_out_time", "checkOut")
    @@ Pass(rawData, "overall_rating", "rating")
    @@ Pass(rawData, "reviews", "reviews")
    @@ (IF Has(rawData, "rates")
        THEN [prices |->
                Slice([i \in 1..Len(rawData.rates) |->
                         Pass(rawData.rates[i], "source", "source")
                           @@ Pass(rawData.rates[i], "rate", "rate")
                           @@ Pass(rawData.rates[i], "total", "total")],
                      PricesLimit)]
        ELSE Empty)
    @@ SliceOf(rawData, "amenities", "amenities", DetailAmenitiesLimit)
    @@ (IF Has(rawData, "images")
        THEN [images |->
                Slice([i \in 1..Len(rawData.images) |-> ImageOf(rawData.images[i])],
                      ImagesLimit)]
        ELSE Empty)
    @@ SliceOf(rawData, "rooms", "rooms", RoomsLimit)
    @@ SliceOf(rawData, "nearby_places", "nearbyPlaces", NearbyLimit)

\* the record searchVacationRentals adds to the simplified response
RentalExtras(args) ==
  [search_note |-> "Vacation rental results from Google Hotels. Look for properties with type='vacation rental' or 'apartment'.",
   requested_filters |-> Pass(args, "bedrooms", "bedrooms")
                           @@ Pass(args, "bathrooms", "bathrooms")
                           @@ Pass(args, "propertyType", "propertyType")
                           @@ Pass(args, "amenities", "amenities")]

\* response.json() rejects on a body that is not JSON
Unparsable == [rejected |-> "SyntaxError"]

\* the handler's return for what a simplifier returned or threw
ReplyOf(simplified) ==
  IF Threw(simplified) THEN ErrorReply(NullEntryMessage) ELSE OkReply(simplified)

\* what a call returns once the provider's body has been read
AfterJson(name, args, rawData, nows) ==
  IF rawData = Unparsable THEN AfterFailure(name, args, JsonMessage)
  ELSE IF name \in {"search_flights", "search_multi_city"}
    THEN ReplyOf(simplifyFlightResponse(rawData))
  ELSE IF name = "search_hotels"
    THEN ReplyOf(simplifyHotelResponse(rawData, nows))
  ELSE IF name = "get_hotel_details"
    THEN OkReply(HotelDetails(args, rawData))
  ELSE LET simplified == simplifyHotelResponse(rawData, nows)
       IN IF Threw(simplified) THEN ErrorReply(NullEntryMessage)
          ELSE OkReply(simplified @@ RentalExtras(args))

\* the number of projections in which the call may read the clock
PropertyCount(name, rawData) ==
  IF name \in {"search_hotels", "search_vacation_rentals"}
  THEN Len(ListOr(rawData, "properties")) ELSE 0

(***************************************************************************)
(* Requests, provider responses and provider payloads.                     *)
(***************************************************************************)
\* one character short of the least length accepted
Token9 == <<"a", "b", "c", "1", "2", "3", "x", "y", "z">>

Token2 == <<"q", "r", "s", "4", "5", "6", "t", "u", "v", "0", "1", "2">>

ArgsFlights ==
  [origin |-> "JFK", destination |-> "LAX", departureDate |-> "2026-03-01"]

ArgsMultiCity ==
  [flights |-> <<[origin |-> "JFK", destination |-> "LAX",
                  departureDate |-> "2026-03-01"]>>]

ArgsHotels ==
  [location |-> "Porto", checkIn |-> "2026-03-01", checkOut |-> "2026-03-04"]

\* request.params.arguments of a request for the tool name
ArgsChoices(name) ==
  IF name = "search_flights" THEN {Undefined, ArgsFlights}
  ELSE IF name = "search_multi_city" THEN {Empty, ArgsMultiCity}
  ELSE IF name = "search_hotels" THEN {ArgsHotels}
  ELSE IF name = "get_hotel_details"
    THEN {Empty, [hotelId |-> <<>>], [hotelId |-> Token9],
          [hotelId |-> Token1], [hotelId |-> Token2]}
  ELSE IF name = "search_vacation_rentals"
    THEN {ArgsHotels, ArgsHotels @@ [bedrooms |-> 2, propertyType |-> "apartment"]}
  ELSE {Empty}

\* a settled fetch: a response with its status, or a rejection
Responses ==
  {[ok |-> TRUE, status |-> 200, statusText |-> "OK"],
   [ok |-> FALSE, status |-> 500, statusText |-> "Internal Server Error"],
   [rejected |-> "TypeError"]}

ResponseOk(response) == Has(response, "ok") /\ response.ok

DetailsSeaInn ==
  [name |-> "Sea Inn", overall_rating |-> 4, neighborhood |-> "Ribeira",
   check_in_time |-> "3:00 PM",
   rates |-> <<[source |-> "Booking", rate |-> 120, total |-> 360]>>,
   images |-> <<[thumbnail |-> "t1.jpg"], [link |-> "l2.jpg"]>>,
   policies |-> [cancellation |-> "free"]]

\* the bodies the provider may send for a request of the tool name
Payloads(name) ==
  IF name \in {"search_flights", "search_multi_city"}
    THEN {Empty, [best_flights |-> <<OptionJFK>>, other_flights |-> <<OptCheap>>],
          [best_flights |-> <<Null>>]}
  ELSE IF name = "get_hotel_details" THEN {Empty, DetailsSeaInn, Unparsable}
  ELSE {[properties |-> <<PropToken>>], [properties |-> <<PropShortName>>],
        [properties |-> <<Null>>]}

(***************************************************************************)
(* The steps of a call.                                                    *)
(***************************************************************************)
ArgsOf_Latest(cs, c) ==
  cs[CHOOSE d \in CallIds :
       /\ cs[d].st # "idle"
       /\ \A e \in CallIds : cs[e].st # "idle" => e <= d].args

\* args is a local of the handler invocation
ArgsOf(cs, c) == cs[c].args

\* the properties the finished hotel searches have returned to the client
ReturnedHotels(cs) ==
  UNION {{cs[c].result.content[1].text.json.properties[i] :
            i \in 1..Len(cs[c].result.content[1].text.json.properties)} :
           c \in {d \in CallIds :
                    /\ cs[d].st = "done"
                    /\ cs[d].name \in {"search_hotels", "search_vacation_rentals"}
                    /\ ~Has(cs[d].result, "isError")}}

\* search-then-details: the client asks for the details of a hotel it was
\* given, by the hotelId of the record
FlowArgs(name, cs) ==
  IF name = "get_hotel_details"
  THEN {[hotelId |-> p.hotelId] : p \in ReturnedHotels(cs)}
  ELSE {}

\* a request arrives and its handler runs up to `await fetch(...)`, or to
\* its return when it does not get that far; requests are numbered in
\* their order of arrival
Receive(c) ==
  /\ proc = Connected
  /\ calls[c].st = "idle"
  /\ c > 1 => calls[c - 1].st # "idle"
  /\ \E name \in RequestNames :
       \E args \in ArgsChoices(name) \cup FlowArgs(name, calls) :
         calls' = [calls EXCEPT ![c] =
                     IF BeforeFetch(name, args) # Undefined
                     THEN [IdleCall EXCEPT !.st = "done", !.name = name,
                             !.args = args, !.result = BeforeFetch(name, args)]
                     ELSE [IdleCall EXCEPT !.st = "fetch", !.name = name,
                             !.args = args,
                             !.request = OutboundRequest(name, args)]]
  /\ UNCHANGED <<pc, fn, raw, out, clock, prev, env, proc, served>>

\* the fetch settles and the call runs up to `await response.json()`, or
\* to its return when the request failed
FetchSettles(c) ==
  /\ calls[c].st = "fetch"
  /\ \E response \in Responses :
       calls' = [calls EXCEPT ![c] =
                   IF ResponseOk(response)
                   THEN [@ EXCEPT !.st = "json", !.response = response]
                   ELSE [@ EXCEPT !.st = "done", !.response = response,
                           !.result = AfterFailure(calls[c].name, ArgsOf(calls, c),
                                                   FailureMessage(response))]]
  /\ UNCHANGED <<pc, fn, raw, out, clock, prev, env, proc, served>>

\* the body is read and the call runs to its return
JsonSettles(c) ==
  /\ calls[c].st = "json"
  /\ \E rawData \in Payloads(calls[c].name) :
       \E nows \in ReadingsFrom(clock, PropertyCount(calls[c].name, rawData)) :
         /\ clock' = (IF Len(nows) > 0 THEN nows[Len(nows)] ELSE clock)
         /\ calls' = [calls EXCEPT ![c] =
                        [@ EXCEPT !.st = "done", !.rawData = rawData,
                           !.result = AfterJson(calls[c].name, ArgsOf(calls, c),
                                                rawData, nows)]]
  /\ UNCHANGED <<pc, fn, raw, out, prev, env, proc, served>>

InitServer ==
  /\ pc = "ready"
  /\ fn = "CallToolRequestSchema"
  /\ raw = Undefined
  /\ out = Undefined
  /\ clock = Time0
  /\ prev = Undefined
  /\ calls = NoCalls
  /\ env = EnvWithKey
  /\ proc = Connected
  /\ served = Undefined

NextServer ==
  \/ \E c \in CallIds : Receive(c)
  \/ \E c \in CallIds : FetchSettles(c)
  \/ \E c \in CallIds : JsonSettles(c)
  \/ Tick

SpecServer == InitServer /\ [][NextServer]_vars

(***************************************************************************)
(* Start-up and the handlers that do not call the provider.  The module    *)
(* body checks the key first, then registers the handlers, then main()     *)
(* connects the transport; requests are served after that.                 *)
(***************************************************************************)
AIRPORTS ==
  <<[id |-> "JFK", name |-> "John F. Kennedy International", city |-> "New York", country |-> "USA"],
    [id |-> "LAX", name |-> "Los Angeles International", city |-> "Los Angeles", country |-> "USA"],
    [id |-> "ORD", name |-> "O'Hare International", city |-> "Chicago", country |-> "USA"],
    [id |-> "SFO", name |-> "San Francisco International", city |-> "San Francisco", country |-> "USA"],
    [id |-> "MIA", name |-> "Miami International", city |-> "Miami", country |-> "USA"],
    [id |-> "LHR", name |-> "Heathrow", city |-> "London", country |-> "UK"],
    [id |-> "CDG", name |-> "Charles de Gaulle", city |-> "Paris", country |-> "France"],
    [id |-> "DXB", name |-> "Dubai International", city |-> "Dubai", country |-> "UAE"],
    [id |-> "NRT", name |-> "Narita International", city |-> "Tokyo", country |-> "Japan"],
    [id |-> "SYD", name |-> "Sydney Airport", city |-> "Sydney", country |-> "Australia"]>>

\* a catalog that still lists the removed flight details tool
TOOLS_WithFlightDetails ==
  <<[name |-> "search_flights", required |-> <<"origin", "destination", "departureDate">>],
    [name |-> "search_multi_city", required |-> <<"flights">>],
    [name |-> "get_flight_details", required |-> <<"flightId">>],
    [name |-> "search_hotels", required |-> <<"location", "checkIn", "checkOut">>],
    [name |-> "get_hotel_details", required |-> <<"hotelId">>],
    [name |-> "search_vacation_rentals", required |-> <<"location", "checkIn", "checkOut">>]>>

\* the tool schemas, by name and required arguments
TOOLS ==
  <<[name |-> "search_flights", required |-> <<"origin", "destination", "departureDate">>],
    [name |-> "search_multi_city", required |-> <<"flights">>],
    [name |-> "search_hotels", required |-> <<"location", "checkIn", "checkOut">>],
    [name |-> "get_hotel_details", required |-> <<"hotelId">>],
    [name |-> "search_vacation_rentals", required |-> <<"location", "checkIn", "checkOut">>]>>

AirportsUri == "mcp://airports"

\* the environments the process may be started in
Environments == {EnvWithKey, Empty, [SERPAPI_API_KEY |-> ""]}

\* process.exit(1)
Exited == [state |-> "exited", code |-> 1]

LoadModule_NoCheck ==
  /\ proc = [state |-> "loading"]
  /\ proc' = [state |-> "loaded"]
  /\ UNCHANGED <<pc, fn, raw, out, clock, prev, calls, env, served>>

\* the module body: without the key the process exits, otherwise the
\* server is created and the handlers are registered
LoadModule ==
  /\ proc = [state |-> "loading"]
  /\ proc' = (IF StrOr(env, "SERPAPI_API_KEY", "") = ""
              THEN Exited ELSE [state |-> "loaded"])
  /\ UNCHANGED <<pc, fn, raw, out, clock, prev, calls, env, served>>

\* main(): the transport is connected, or connecting fails and the catch
\* of main() exits
Main ==
  /\ proc = [state |-> "loaded"]
  /\ proc' \in {Connected, Exited}
  /\ UNCHANGED <<pc, fn, raw, out, clock, prev, calls, env, served>>

\* served holds the reply to the last request that is not a tool call
ListTools ==
  /\ proc = Connected
  /\ served' = [tools |-> TOOLS]
  /\ UNCHANGED <<pc, fn, raw, out, clock, prev, calls, env, proc>>

ListResources ==
  /\ proc = Connected
  /\ served' = [resources |->
                  <<[uri |-> AirportsUri, name |-> "Airport Codes",
                     description |-> "List of common airport codes and names",
                     mimeType |-> "application/json"]>>]
  /\ UNCHANGED <<pc, fn, raw, out, clock, prev, calls, env, proc>>

ReadResource ==
  /\ proc = Connected
  /\ \E uri \in {AirportsUri, "mcp://hotels"} :
       served' = (IF uri = AirportsUri
                  THEN [contents |->
                          <<[uri |-> uri, mimeType |-> "application/json",
                             text |-> JSONStringify(AIRPORTS)]>>]
                  ELSE [threw |-> "Unknown resource: " \o uri])
  /\ UNCHANGED <<pc, fn, raw, out, clock, prev, calls, env, proc>>

InitStartup ==
  /\ pc = "ready"
  /\ fn = "CallToolRequestSchema"
  /\ raw = Undefined
  /\ out = Undefined
  /\ clock = Time0
  /\ prev = Undefined
  /\ calls = NoCalls
  /\ env \in Environments
  /\ proc = [state |-> "loading"]
  /\ served = Undefined

\* one tool call at a time is enough here; SpecServer has them concurrent
NextStartup ==
  \/ LoadModule
  \/ Main
  \/ ListTools
  \/ ListResources
  \/ ReadResource
  \/ Receive(1)
  \/ FetchSettles(1)
  \/ JsonSettles(1)
  \/ Tick

SpecStartup == InitStartup /\ [][NextStartup]_vars

(***************************************************************************)
(* Properties.                                                             *)
(***************************************************************************)
FlightDone == pc = "done" /\ fn = "simplifyFlightResponse"

HotelDone == pc = "done" /\ fn = "simplifyHotelResponse"

FlightReturned == FlightDone /\ ~Threw(out)

HotelReturned == HotelDone /\ ~Threw(out)

\* the number of raw entries of a list, an absent list counting as 0
RawCount(f) == IF Has(raw, f) THEN Len(raw[f]) ELSE 0

\* C1: simplifyFlightResponse and simplifyHotelResponse never raise, whatever
\* is absent from the raw payload and whatever shape its list entries have:
\* every finished call has returned a response.
C1_NeverRaises == pc = "done" => ~Threw(out)

\* C2: a returned flight response counts every raw option: totalResults is
\* N + M for N entries of best_flights and M entries of other_flights, also
\* when M is above the cap of 5 on otherFlights.
C2_TotalResults ==
  FlightReturned =>
    out.summary.totalResults = RawCount("best_flights") + RawCount("other_flights")

C2_Witness ==
  /\ FlightReturned
  /\ RawCount("best_flights") >= 1
  /\ RawCount("other_flights") > 5
  /\ out.summary.totalResults > Len(out.bestFlights) + Len(out.otherFlights)

\* C3: otherFlights is the projection of the first min(M, 5) entries of
\* other_flights in their order, and bestFlights is the projection of all N
\* entries of best_flights in their order.
C3_Lists ==
  FlightReturned =>
    /\ Len(out.bestFlights) = RawCount("best_flights")
    /\ \A i \in 1..Len(out.bestFlights) :
         out.bestFlights[i] = simplifyFlightOption(raw.best_flights[i])
    /\ Len(out.otherFlights) =
         (IF RawCount("other_flights") <= 5 THEN RawCount("other_flights") ELSE 5)
    /\ \A i \in 1..Len(out.otherFlights) :
         out.otherFlights[i] = simplifyFlightOption(raw.other_flights[i])

C3_Witness ==
  /\ FlightReturned
  /\ RawCount("other_flights") > 5
  /\ Len(out.otherFlights) = 5
  /\ out.otherFlights[1] # out.otherFlights[5]
  /\ RawCount("best_flights") > 5
  /\ out.bestFlights[1] # out.bestFlights[Len(out.bestFlights)]

\* C4: every search response holds at most 10 result records: bestFlights
\* plus otherFlights for a flight search, properties for a hotel search.
C4_AtMostTen ==
  /\ FlightReturned => Len(out.bestFlights) + Len(out.otherFlights) <= 10
  /\ HotelReturned => Len(out.properties) <= 10

\* the returned flights, each paired with the raw option it projects
ProjectedPairs ==
  {<<raw.best_flights[i], out.bestFlights[i]>> : i \in 1..Len(out.bestFlights)}
    \cup {<<raw.other_flights[i], out.otherFlights[i]>> : i \in 1..Len(out.otherFlights)}

\* { airport, code, time } read from the airport f of a leg, "" where absent
AirportFields(leg, f) ==
  [airport |-> IF Has(leg, f) /\ Has(leg[f], "name") THEN leg[f].name ELSE "",
   code |-> IF Has(leg, f) /\ Has(leg[f], "id") THEN leg[f].id ELSE "",
   time |-> IF Has(leg, f) /\ Has(leg[f], "time") THEN leg[f].time ELSE ""]

NoAirport == [airport |-> "", code |-> "", time |-> ""]

\* the option has L >= 1 legs, the first and the last of them objects
HasLegs(o) ==
  /\ Has(o, "flights")
  /\ Len(o.flights) >= 1
  /\ ~IsNull(o.flights[1])
  /\ ~IsNull(o.flights[Len(o.flights)])

\* C5: for an option with L >= 1 legs, departure is read from the first
\* leg's departure airport, arrival from the last leg's arrival airport, and
\* stops is L - 1.
C5_FirstAndLastLeg ==
  FlightReturned =>
    \A pr \in ProjectedPairs :
      HasLegs(pr[1]) =>
        /\ pr[2].departure = AirportFields(pr[1].flights[1], "departure_airport")
        /\ pr[2].arrival =
             AirportFields(pr[1].flights[Len(pr[1].flights)], "arrival_airport")
        /\ pr[2].stops = Len(pr[1].flights) - 1

C5_Witness ==
  /\ FlightReturned
  /\ \E pr \in ProjectedPairs :
       /\ HasLegs(pr[1])
       /\ pr[1].flights = <<LegA, LegB, LegC>>
       /\ pr[2].departure.code = "LAX"
       /\ pr[2].arrival.code = "BOS"
       /\ pr[2].stops = 2

\* C6: an option whose leg sequence is empty or absent projects to stops 0,
\* empty departure and arrival fields, airline "Unknown", flightNumber "",
\* and a duration formatted from the raw total ("0h 0m" when absent); no
\* projected flight has a negative stop count.
C6_NoLegs ==
  FlightReturned =>
    \A pr \in ProjectedPairs :
      /\ pr[2].stops >= 0
      /\ (~Has(pr[1], "flights") \/ Len(pr[1].flights) = 0) =>
           /\ pr[2].stops = 0
           /\ pr[2].departure = NoAirport
           /\ pr[2].arrival = NoAirport
           /\ pr[2].airline = "Unknown"
           /\ pr[2].flightNumber = ""
           /\ pr[2].duration =
                (IF Has(pr[1], "total_duration")
                 THEN ToString(pr[1].total_duration \div 60) \o "h "
                        \o ToString(pr[1].total_duration % 60) \o "m"
                 ELSE "0h 0m")

C6_Witness ==
  /\ FlightReturned
  /\ \E pr \in ProjectedPairs :
       /\ Has(pr[1], "flights")
       /\ Len(pr[1].flights) = 0
       /\ Has(pr[1], "total_duration")
       /\ pr[2].stops = 0
       /\ pr[2].duration = "6h 25m"

\* C7 as stated: the option of the round-trip scenario projects to the
\* stated record, whose arrival is {"JFK Intl", "JFK", "11:00"}.
C7_Scenario ==
  (FlightReturned /\ raw = [best_flights |-> <<OptionJFK>>]) =>
    out.bestFlights[1] =
      [airline |-> "Frontier", flightNumber |-> "F9 2503",
       departure |-> [airport |-> "JFK Intl", code |-> "JFK", time |-> "11:00"],
       arrival |-> [airport |-> "JFK Intl", code |-> "JFK", time |-> "11:00"],
       duration |-> "6h 25m", stops |-> 0, price |-> 926, currency |-> "USD",
       bookingToken |-> "TOK1",
       highlights |-> <<"Legroom: 28 in", "Economy", "Round trip">>]

\* C7, amended: the option of the round-trip scenario projects to the stated
\* record except that arrival is {"", "", ""}, since its only leg has no
\* arrival airport.
C7_ScenarioAmended ==
  (FlightReturned /\ raw = [best_flights |-> <<OptionJFK>>]) =>
    out.bestFlights[1] =
      [airline |-> "Frontier", flightNumber |-> "F9 2503",
       departure |-> [airport |-> "JFK Intl", code |-> "JFK", time |-> "11:00"],
       arrival |-> [airport |-> "", code |-> "", time |-> ""],
       duration |-> "6h 25m", stops |-> 0, price |-> 926, currency |-> "USD",
       bookingToken |-> "TOK1",
       highlights |-> <<"Legroom: 28 in", "Economy", "Round trip">>]

C7_Witness ==
  /\ FlightReturned
  /\ raw = [best_flights |-> <<OptionJFK>>]
  /\ Len(out.bestFlights) = 1
  /\ out.bestFlights[1].airline = "Frontier"

\* the highlights that qualify for an option, in priority order
Qualifying(o) ==
  LET first == IF Has(o, "flights") /\ Len(o.flights) > 0 THEN o.flights[1] ELSE Empty
  IN (IF Has(o, "carbon_emissions") /\ Has(o.carbon_emissions, "difference_percent")
         /\ o.carbon_emissions.difference_percent < 0
      THEN <<ToString(0 - o.carbon_emissions.difference_percent) \o "% less CO2">>
      ELSE <<>>)
     \o (IF Has(first, "legroom") THEN <<"Legroom: " \o first.legroom>> ELSE <<>>)
     \o (IF Has(first, "travel_class") THEN <<first.travel_class>> ELSE <<>>)
     \o (IF Has(o, "type") THEN <<o.type>> ELSE <<>>)

\* C8: highlights has at most 3 entries and is the first 3 of the qualifying
\* entries in the order CO2, legroom, travel class, trip type; an entry is
\* dropped only when 3 entries of higher priority qualify.
C8_Highlights ==
  FlightReturned =>
    \A pr \in ProjectedPairs :
      LET q == Qualifying(pr[1])
          h == pr[2].highlights
      IN /\ Len(h) <= 3
         /\ Len(h) = (IF Len(q) <= 3 THEN Len(q) ELSE 3)
         /\ \A i \in 1..Len(h) : h[i] = q[i]

C8_Witness ==
  /\ FlightReturned
  /\ \E pr \in ProjectedPairs :
       /\ Len(Qualifying(pr[1])) = 4
       /\ pr[2].highlights = <<"12% less CO2", "Legroom: 31 in", "Business">>

\* C9: the duration of a total of M >= 0 minutes (0 when absent) is
\* "{M div 60}h {M mod 60}m", without padding: 385 gives "6h 25m", 60 gives
\* "1h 0m", 0 gives "0h 0m".
C9_Duration ==
  FlightReturned =>
    \A pr \in ProjectedPairs :
      LET M == IF Has(pr[1], "total_duration") THEN pr[1].total_duration ELSE 0
          h == M \div 60
          m == M % 60
      IN /\ m \in 0..59
         /\ 60 * h + m = M
         /\ pr[2].duration = ToString(h) \o "h " \o ToString(m) \o "m"
         /\ M = 385 => pr[2].duration = "6h 25m"
         /\ M = 60 => pr[2].duration = "1h 0m"
         /\ M = 0 => pr[2].duration = "0h 0m"

C9_Witness ==
  /\ FlightReturned
  /\ \E pr \in ProjectedPairs :
       /\ Has(pr[1], "total_duration")
       /\ pr[1].total_duration = 125
       /\ pr[2].duration = "2h 5m"

\* the price an option projects to
RawPrice(o) == IF Has(o, "price") THEN o.price ELSE 0

\* the projected prices of all raw options, returned or not
RawPrices ==
  {RawPrice(raw.best_flights[i]) : i \in 1..RawCount("best_flights")}
    \cup {RawPrice(raw.other_flights[i]) : i \in 1..RawCount("other_flights")}

\* C10: priceRange is omitted exactly when best_flights and other_flights
\* hold no option; otherwise min and max are the least and the greatest
\* projected price over all options, those beyond the first 5 of
\* other_flights included.
C10_PriceRange ==
  FlightReturned =>
    /\ Has(out.summary, "priceRange") <=>
         RawCount("best_flights") + RawCount("other_flights") > 0
    /\ Has(out.summary, "priceRange") =>
         /\ out.summary.priceRange.min \in RawPrices
         /\ out.summary.priceRange.max \in RawPrices
         /\ \A p \in RawPrices :
              out.summary.priceRange.min <= p /\ p <= out.summary.priceRange.max

C10_Witness ==
  /\ FlightReturned
  /\ RawCount("other_flights") > 5
  /\ RawCount("best_flights") > 0
  /\ Has(out.summary, "priceRange")
  /\ \A pr \in ProjectedPairs : pr[2].price > out.summary.priceRange.min

\* the raw options of both lists
RawOptions ==
  {raw.best_flights[i] : i \in 1..RawCount("best_flights")}
    \cup {raw.other_flights[i] : i \in 1..RawCount("other_flights")}

\* C11 as stated: priceRange is omitted whenever no option of best_flights
\* or other_flights carries a price; no {min: 0, max: 0} range is emitted.
C11_OmittedWithoutPrices ==
  (FlightReturned /\ \A o \in RawOptions : ~Has(o, "price")) =>
    ~Has(out.summary, "priceRange")

\* C11, amended: priceRange is omitted only when there is no option at all;
\* an option without a price counts with price 0, so when options exist and
\* none carries a price the range {min: 0, max: 0} is emitted.
C11_ZeroRangeWithoutPrices ==
  (FlightReturned /\ \A o \in RawOptions : ~Has(o, "price")) =>
    IF RawOptions = {}
    THEN ~Has(out.summary, "priceRange")
    ELSE /\ Has(out.summary, "priceRange")
         /\ out.summary.priceRange = [min |-> 0, max |-> 0]

C11_Witness ==
  /\ FlightReturned
  /\ RawOptions # {}
  /\ \A o \in RawOptions : ~Has(o, "price")
  /\ out.summary.priceRange = [min |-> 0, max |-> 0]

\* the returned properties, each paired with the raw property it projects
HotelPairs ==
  {<<raw.properties[i], out.properties[i]>> : i \in 1..Len(out.properties)}

\* C12: a returned hotel response has totalResults = P for P raw properties
\* and returns the projections of the first min(P, 10) of them, in order.
C12_HotelLists ==
  HotelReturned =>
    /\ out.summary.totalResults = RawCount("properties")
    /\ Len(out.properties) =
         (IF RawCount("properties") <= 10 THEN RawCount("properties") ELSE 10)
    /\ \A i \in 1..Len(out.properties) :
         \E t \in {Time0, Time1} :
           out.properties[i] = simplifyHotelProperty(raw.properties[i], t)

C12_Witness ==
  /\ HotelReturned
  /\ RawCount("properties") > 10
  /\ out.summary.totalResults = RawCount("properties")
  /\ Len(out.properties) = 10
  /\ out.properties[1] # out.properties[10]

\* the nightly rate a raw property carries, 0 when it carries none
RawRate(o) ==
  IF Has(o, "rate_per_night") /\ Has(o.rate_per_night, "extracted_lowest")
  THEN o.rate_per_night.extracted_lowest ELSE 0

\* the positive nightly rates of all raw properties, returned or not
PositiveRates ==
  {RawRate(raw.properties[i]) : i \in 1..RawCount("properties")} \ {0}

\* C13: the hotel priceRange is the least and the greatest nightly price
\* over all properties with a price above 0, those beyond the first 10
\* included; it is omitted when no property has a price above 0.
C13_HotelPriceRange ==
  HotelReturned =>
    /\ Has(out.summary, "priceRange") <=> PositiveRates # {}
    /\ Has(out.summary, "priceRange") =>
         /\ out.summary.priceRange.min \in PositiveRates
         /\ out.summary.priceRange.max \in PositiveRates
         /\ \A p \in PositiveRates :
              out.summary.priceRange.min <= p /\ p <= out.summary.priceRange.max

C13_Witness ==
  /\ HotelReturned
  /\ RawCount("properties") > 10
  /\ Has(out.summary, "priceRange")
  /\ \A pr \in HotelPairs : pr[2].pricePerNight > out.summary.priceRange.min

\* the raw property carries a token that is not the empty string
HasToken(o) == Has(o, "property_token") /\ o.property_token # <<>>

\* C14: a property with a non-empty property_token projects to
\* hotelId = propertyToken = property_token; no id is synthesized for it.
C14_TokenKept ==
  HotelReturned =>
    \A pr \in HotelPairs :
      HasToken(pr[1]) =>
        /\ pr[2].hotelId = pr[1].property_token
        /\ pr[2].propertyToken = pr[1].property_token

C14_Witness ==
  /\ HotelReturned
  /\ \E pr \in HotelPairs :
       /\ pr[1] = PropToken
       /\ pr[2].hotelId = Token1
       /\ pr[2].propertyToken = Token1

\* C15: a property without a property_token, or with an empty one, projects
\* to a hotelId "HTL-" + fragment + "-" + timestamp, whose fragment has at
\* most 20 characters and no whitespace and is the start of the name with
\* its whitespace runs replaced by hyphens, while propertyToken is "".
C15_SynthesizedId ==
  HotelReturned =>
    \A pr \in HotelPairs :
      ~HasToken(pr[1]) =>
        LET id == pr[2].hotelId
            frag == SubSeq(id, 5, Len(id) - 14)
        IN /\ pr[2].propertyToken = <<>>
           /\ Len(id) >= 18
           /\ SubSeq(id, 1, 4) = <<"H", "T", "L", "-">>
           /\ id[Len(id) - 13] = "-"
           /\ SubSeq(id, Len(id) - 12, Len(id)) \in {Time0, Time1}
           /\ Len(frag) <= 20
           /\ \A i \in 1..Len(frag) : frag[i] \notin {" ", "\t", "\n"}
           /\ (Has(pr[1], "name") /\ pr[1].name = NameShort) =>
                frag = <<"S", "e", "a", "-", "I", "n", "n">>
           /\ (Has(pr[1], "name") /\ pr[1].name = NameLong) =>
                frag = <<"G", "r", "a", "n", "d", "-", "P", "l", "a", "z", "a", "-",
                         "H", "o", "t", "e", "l", "-", "&", "-">>

C15_Witness ==
  /\ HotelReturned
  /\ \E pr \in HotelPairs :
       /\ pr[1] = PropNoToken
       /\ pr[2].propertyToken = <<>>
       /\ Len(pr[2].hotelId) = 38

\* C16: a property carrying only a property_token projects to name
\* "Unknown Property", type "hotel", prices 0, currency "USD", location "",
\* without amenities, rating, reviewCount, bookingLink, checkIn, checkOut;
\* in general each field takes its default when its raw source is absent
\* and the raw value when it is present.
C16_HotelDefaults ==
  HotelReturned =>
    \A pr \in HotelPairs :
      LET o == pr[1]
          p == pr[2]
      IN /\ o = PropToken =>
              p = [hotelId |-> Token1,
                   name |-> <<"U", "n", "k", "n", "o", "w", "n", " ",
                              "P", "r", "o", "p", "e", "r", "t", "y">>,
                   type |-> "hotel", pricePerNight |-> 0, totalPrice |-> 0,
                   currency |-> "USD", location |-> "", propertyToken |-> Token1]
         /\ p.name = (IF Has(o, "name") THEN o.name
                      ELSE <<"U", "n", "k", "n", "o", "w", "n", " ",
                             "P", "r", "o", "p", "e", "r", "t", "y">>)
         /\ p.type = (IF Has(o, "type") THEN o.type ELSE "hotel")
         /\ p.pricePerNight = RawRate(o)
         /\ p.totalPrice =
              (IF Has(o, "total_rate") /\ Has(o.total_rate, "extracted_lowest")
               THEN o.total_rate.extracted_lowest ELSE 0)
         /\ p.currency = "USD"
         /\ p.location = (IF Has(o, "neighborhood") THEN o.neighborhood
                          ELSE IF Has(o, "location") THEN o.location ELSE "")
         /\ Has(p, "amenities") <=> Has(o, "amenities")
         /\ IF Has(o, "overall_rating")
            THEN p.rating = o.overall_rating ELSE ~Has(p, "rating")
         /\ IF Has(o, "reviews")
            THEN p.reviewCount = o.reviews ELSE ~Has(p, "reviewCount")
         /\ IF Has(o, "link") THEN p.bookingLink = o.link ELSE ~Has(p, "bookingLink")
         /\ IF Has(o, "check_in_time")
            THEN p.checkIn = o.check_in_time ELSE ~Has(p, "checkIn")
         /\ IF Has(o, "check_out_time")
            THEN p.checkOut = o.check_out_time ELSE ~Has(p, "checkOut")

C16_Witness ==
  /\ HotelReturned
  /\ \E pr \in HotelPairs : pr[1] = PropToken /\ pr[2].pricePerNight = 0
  /\ \E pr \in HotelPairs : pr[1] = PropFull /\ pr[2].totalPrice = 360

\* C17: amenities is the first min(A, 5) of the A raw amenities, in order,
\* and is omitted, not empty, when the raw property has no amenities.
C17_Amenities ==
  HotelReturned =>
    \A pr \in HotelPairs :
      IF Has(pr[1], "amenities")
      THEN /\ Has(pr[2], "amenities")
           /\ Len(pr[2].amenities) =
                (IF Len(pr[1].amenities) <= 5 THEN Len(pr[1].amenities) ELSE 5)
           /\ \A i \in 1..Len(pr[2].amenities) :
                pr[2].amenities[i] = pr[1].amenities[i]
      ELSE ~Has(pr[2], "amenities")

C17_Witness ==
  /\ HotelReturned
  /\ \E pr \in HotelPairs :
       /\ Has(pr[1], "amenities")
       /\ Len(pr[1].amenities) = 7
       /\ pr[2].amenities = <<"Wi-Fi", "Pool", "Spa", "Parking", "Bar">>
  /\ \E pr \in HotelPairs : ~Has(pr[1], "amenities") /\ ~Has(pr[2], "amenities")

C19_HotelRepeatable ==
  (HotelDone /\ prev # Undefined) => out = prev.result

\* the results of a call served alone: what its own request and what the
\* provider sent it determine, at whatever times it reads the clock
ServedAlone(call) ==
  IF BeforeFetch(call.name, call.args) # Undefined
    THEN {BeforeFetch(call.name, call.args)}
  ELSE IF ~ResponseOk(call.response)
    THEN {AfterFailure(call.name, call.args, FailureMessage(call.response))}
  ELSE {AfterJson(call.name, call.args, call.rawData, nows) :
          nows \in ClockReadings(PropertyCount(call.name, call.rawData))}

C28_RangeBounds ==
  /\ (FlightReturned /\ Has(out.summary, "priceRange")) =>
       /\ out.summary.priceRange.min <= out.summary.priceRange.max
       /\ \A pr \in ProjectedPairs :
            /\ out.summary.priceRange.min <= pr[2].price
            /\ pr[2].price <= out.summary.priceRange.max
  /\ (HotelReturned /\ Has(out.summary, "priceRange")) =>
       /\ out.summary.priceRange.min <= out.summary.priceRange.max
       /\ \A pr \in HotelPairs :
            pr[2].pricePerNight > 0 =>
              /\ out.summary.priceRange.min <= pr[2].pricePerNight
              /\ pr[2].pricePerNight <= out.summary.priceRange.max

C28_Witness ==
  /\ FlightReturned
  /\ Has(out.summary, "priceRange")
  /\ out.summary.priceRange.min < out.summary.priceRange.max
  /\ \E pr \in ProjectedPairs :
       /\ out.summary.priceRange.min < pr[2].price
       /\ pr[2].price < out.summary.priceRange.max

\* C30: a call of simplifyFlightResponse or simplifyHotelResponse leaves its
\* argument as it was: the lists of the raw payload keep their length,
\* order and contents although the output is truncated.
C30_ArgumentUnchanged ==
  [][(pc = "ready" /\ pc' = "done") => raw' = raw]_vars

C30_Witness ==
  /\ HotelReturned
  /\ Has(raw, "properties")
  /\ Len(raw.properties) > Len(out.properties)
  /\ \E pr \in HotelPairs :
       /\ Has(pr[1], "amenities")
       /\ Len(pr[1].amenities) > Len(pr[2].amenities)

\* the calls for the named tool that have been received
CallsOf(name) == {c \in CallIds : calls[c].st # "idle" /\ calls[c].name = name}

\* what a finished call returned to the client, before JSON.stringify
Returned(c) == calls[c].result.content[1].text.json

Tokenless == {p \in ReturnedHotels(calls) : p.propertyToken = <<>>}

\* the details calls made with the hotelId of such a record
TokenlessLookups ==
  {c \in CallsOf("get_hotel_details") :
     \E p \in Tokenless : calls[c].args = [hotelId |-> p.hotelId]}

\* C22 as stated: a get_hotel_details call made with the hotelId of a
\* search record whose raw property lacked a property_token fails: it never
\* returns hotel details.
C22_TokenlessLookupFails ==
  \A c \in TokenlessLookups :
    calls[c].st = "done" => Has(Returned(c), "error")

\* C26: every synthesized hotelId has length at least 10, so a
\* get_hotel_details call made with it is not rejected by the local check
\* and sends a provider request with the synthesized id as property_token.
C26_SynthesizedIdAccepted ==
  /\ \A p \in Tokenless : Len(p.hotelId) >= 10
  /\ \A c \in TokenlessLookups :
       /\ calls[c].request # Undefined
       /\ calls[c].request.engine = "google_hotels"
       /\ calls[c].request.property_token = calls[c].args.hotelId
       /\ calls[c].st = "done" =>
            \/ ~Has(Returned(c), "error")
            \/ Returned(c).error # "Invalid hotelId/property_token"

C26_Witness ==
  \E c \in TokenlessLookups :
    /\ calls[c].st = "fetch"
    /\ Len(calls[c].args.hotelId) = 25
    /\ calls[c].request.property_token = calls[c].args.hotelId

\* the received calls whose provider request failed: a response that is
\* not 2xx, or a connection failure
FailedRequests ==
  {c \in CallIds : calls[c].response # Undefined /\ ~ResponseOk(calls[c].response)}

\* the message of the failure of call c
FailureText(c) ==
  IF Has(calls[c].response, "status")
  THEN "SerpAPI request failed: 500 Internal Server Error"
  ELSE "fetch failed"

\* C24: for the four search tools a provider response that is not 2xx, or
\* a connection failure, becomes a tool result with isError true carrying
\* the failure message; the body is never read, so the simplifier is not
\* invoked on that call, and the next request can still be received.
C24_SearchFailureIsError ==
  \A c \in FailedRequests :
    calls[c].name # "get_hotel_details" =>
      /\ calls[c].st = "done"
      /\ calls[c].rawData = Undefined
      /\ Has(calls[c].result, "isError") /\ calls[c].result.isError
      /\ Returned(c) = [error |-> FailureText(c)]
      /\ (c < MaxCalls /\ calls[c + 1].st = "idle") => ENABLED Receive(c + 1)

C24_Witness ==
  /\ calls[1].name = "search_hotels"
  /\ 1 \in FailedRequests
  /\ calls[1].result.isError
  /\ Returned(1).error = "SerpAPI request failed: 500 Internal Server Error"
  /\ calls[2].st = "done"
  /\ calls[2].name = "search_flights"
  /\ calls[2].rawData # Undefined
  /\ ~Has(calls[2].result, "isError")

\* C27: a failed provider request inside get_hotel_details is caught there
\* and returned as an ordinary tool result holding hotelId, error, note and
\* suggestion, without isError.
C27_DetailsFailureIsResult ==
  \A c \in FailedRequests :
    calls[c].name = "get_hotel_details" =>
      /\ calls[c].st = "done"
      /\ ~Has(calls[c].result, "isError")
      /\ DOMAIN Returned(c) = {"hotelId", "error", "note", "suggestion"}
      /\ Returned(c).hotelId = calls[c].args.hotelId
      /\ Returned(c).error = FailureText(c)

C27_Witness ==
  \E c \in FailedRequests :
    /\ calls[c].name = "get_hotel_details"
    /\ Returned(c).hotelId = Token1
    /\ Returned(c).error = "fetch failed"
    /\ ~Has(calls[c].result, "isError")

C29_NoKeyNothingServed ==
  (~Has(env, "SERPAPI_API_KEY") \/ env.SERPAPI_API_KEY = "") =>
    /\ proc \in {[state |-> "loading"], [state |-> "exited", code |-> 1]}
    /\ served = Undefined
    /\ \A c \in CallIds : calls[c].st = "idle"

C29_Witness ==
  /\ ~Has(env, "SERPAPI_API_KEY")
  /\ proc = [state |-> "exited", code |-> 1]
  /\ served = Undefined

====
